---- MODULE Spec2Model ----
(***************************************************************************)
(* A model of swatch (src/src/main.rs): the App session (save_path,        *)
(* groups, ungrouped, errors), its menu handlers (Open, Save, Save As,     *)
(* Exit), the per-frame rendering of every visible colour block through    *)
(* the 8-bit display colour, and the "Add New" button of each block list.  *)
(*                                                                         *)
(* One call of App::update is a frame.  A frame first handles the menu     *)
(* (pc = "menu"), then walks the block lists in display order: the groups  *)
(* in order, then the ungrouped list.  For the list at position cur it     *)
(* runs the loop over its blocks (pc = "blocks") and then its "Add New"    *)
(* button (pc = "add").  The file system, the file pickers, the codec and  *)
(* the user are the environment: their answers are the inputs of the       *)
(* actions.                                                                *)
(*                                                                         *)
(* A colour channel (an f32 in the source) is an integer n that stands     *)
(* for the exact value n / ChanDen.                                        *)
(***************************************************************************)
EXTENDS Integers, Sequences, FiniteSets, TLC

VARIABLES
    save_path,  \* App.save_path : Option<PathBuf>
    groups,     \* App.groups    : Vec<Group>
    ungrouped,  \* App.ungrouped : Vec<ColorBlock>
    errors,     \* App.errors    : Vec<String>
    pc,         \* position of the process: main, menu, blocks, add, exited, aborted
    cur,        \* the block list the frame is at: 1..Len(groups) a group, Len(groups)+1 ungrouped
    closing,    \* ViewportCommand::Close has been sent
    op,         \* the step taken last
    io,         \* the calls the last step made to the environment, in order
    intent,     \* the user input the central-panel widgets received last
    loaded,     \* the document the session loaded last (the empty one before any load)
    edits,      \* number of user edits (recolor, rename, add) since that load
    known_paths \* the paths the session loaded successfully or the save picker returned

vars == <<save_path, groups, ungrouped, errors, pc, cur, closing, op, io, intent, loaded, edits,
          known_paths>>

----------------------------------------------------------------------------
(* Bounds *)

MaxErrors == 2      \* steps that would push onto a longer errors are not taken
MaxBlocks == 2      \* "Add New" is not clicked on a list that long
MaxEdits  == 2      \* user edits per loaded document

----------------------------------------------------------------------------
(* Values *)

U8Max == 255
ChanDen == 2 * U8Max            \* channel n stands for n / ChanDen
One == ChanDen                  \* 1.0
Half == ChanDen \div 2          \* 0.5, not a multiple of 1/255

None == <<>>
Some(x) == <<x>>
Option(S) == {None} \cup {Some(x) : x \in S}

Paths == {"p1", "p2"}

Rgb(r, g, b) == [tag |-> "Rgb", ch |-> <<r, g, b>>]
Cmyk(c, m, y, k) == [tag |-> "Cmyk", ch |-> <<c, m, y, k>>]
Gray(v) == [tag |-> "Gray", ch |-> <<v>>]

ColorBlock(name, color, color_type) ==
    [name |-> name, color |-> color, color_type |-> color_type]

Group(name, blocks) == [name |-> name, blocks |-> blocks]

Document(g, u) == [groups |-> g, ungrouped |-> u]

EmptyDoc == Document(<<>>, <<>>)

\* What read_ase can return for the files of the model.
DocA == Document(<<Group("g", <<ColorBlock("a", Rgb(Half, 0, One), "Global")>>)>>,
                 <<ColorBlock("b", Rgb(One, One, 0), "Spot")>>)
DocB == Document(<<Group("g", <<ColorBlock("c", Cmyk(0, Half, One, 0), "Normal")>>)>>,
                 <<ColorBlock("a", Rgb(Half, Half, 0), "Normal")>>)
DocC == Document(<<>>,
                 <<ColorBlock("a", Rgb(0 - Half, 3 * Half, Half), "Spot"),
                   ColorBlock("k", Gray(Half), "Normal")>>)
Docs == {DocA, DocB, DocC}

\* What the user can type into a name field and pick in a colour picker.
Names == {"x"}
EditColors == {<<255, 128, 0, 255>>}

----------------------------------------------------------------------------
(* The environment's answers *)

Ev(t, path, ok, doc) == [t |-> t, path |-> path, ok |-> ok, doc |-> doc]

LoadOk(d) == [ok |-> TRUE, err |-> "", doc |-> d]
LoadErr(e) == [ok |-> FALSE, err |-> e, doc |-> EmptyDoc]
LoadResults == {LoadOk(d) : d \in Docs} \cup {LoadErr("ReadError"), LoadErr("DecodeError")}

App == [save_path |-> save_path, groups |-> groups, ungrouped |-> ungrouped, errors |-> errors]

DocOf(app) == Document(app.groups, app.ungrouped)

\* the paths that the calls l of a step loaded or had confirmed in the save picker
Vouched(l) == {l[i].path[1] : i \in {j \in DOMAIN l : l[j].t \in {"read", "save_file"} /\ l[j].ok}}

----------------------------------------------------------------------------
(* load_from_path: read the file, decode it *)
load_from_path(path, res) ==
    [res |-> res, io |-> <<Ev("read", Some(path), res.ok, res.doc)>>]

(* App::new *)
new(path, res) ==
    LET ret == [save_path |-> path, groups |-> <<>>, ungrouped |-> <<>>, errors |-> <<>>]
        args == <<Ev("args", path, TRUE, EmptyDoc)>>
    IN  IF ret.save_path # None
        THEN LET l == load_from_path(ret.save_path[1], res)
             IN  IF l.res.ok
                 THEN [app |-> [ret EXCEPT !.groups = l.res.doc.groups,
                                           !.ungrouped = l.res.doc.ungrouped],
                       io |-> args \o l.io]
                 ELSE [app |-> [ret EXCEPT !.errors = Append(@, l.res.err)],
                       io |-> args \o l.io]
        ELSE [app |-> ret, io |-> args]

(* App::set_save_path: pick is what FileDialog::save_file returns *)
set_save_path(app, pick) ==
    [app |-> [app EXCEPT !.save_path = pick],
     io |-> <<Ev("save_file", pick, pick # None, EmptyDoc)>>]

\* save with a cancelled prompt reported as an error
save_reports_cancel(app, pick, wok) ==
    LET s == IF app.save_path = None
             THEN set_save_path(app, pick)
             ELSE [app |-> app, io |-> <<>>]
    IN  IF s.app.save_path # None
        THEN [app |-> IF wok THEN s.app
                      ELSE [s.app EXCEPT !.errors = Append(@, "WriteError")],
              io |-> s.io \o <<Ev("write", s.app.save_path, wok, DocOf(s.app))>>]
        ELSE [app |-> [s.app EXCEPT !.errors = Append(@, "NoPath")], io |-> s.io]

\* save that forgets the path when the write fails
save_unbinds_on_failure(app, pick, wok) ==
    LET s == IF app.save_path = None
             THEN set_save_path(app, pick)
             ELSE [app |-> app, io |-> <<>>]
    IN  IF s.app.save_path # None
        THEN [app |-> IF wok THEN s.app
                      ELSE [s.app EXCEPT !.errors = Append(@, "WriteError"),
                                         !.save_path = None],
              io |-> s.io \o <<Ev("write", s.app.save_path, wok, DocOf(s.app))>>]
        ELSE s

\* save that keeps only the latest diagnostic
save_resets_errors(app, pick, wok) ==
    LET s == IF app.save_path = None
             THEN set_save_path(app, pick)
             ELSE [app |-> app, io |-> <<>>]
    IN  IF s.app.save_path # None
        THEN [app |-> IF wok THEN s.app
                      ELSE [s.app EXCEPT !.errors = <<"WriteError">>],
              io |-> s.io \o <<Ev("write", s.app.save_path, wok, DocOf(s.app))>>]
        ELSE s

\* save that asks for a path every time
save_always_prompts(app, pick, wok) ==
    LET s == set_save_path(app, pick)
    IN  IF s.app.save_path # None
        THEN [app |-> IF wok THEN s.app
                      ELSE [s.app EXCEPT !.errors = Append(@, "WriteError")],
              io |-> s.io \o <<Ev("write", s.app.save_path, wok, DocOf(s.app))>>]
        ELSE s

(* App::save: wok is whether std::fs::write succeeds *)
save(app, pick, wok) ==
    LET s == IF app.save_path = None
             THEN set_save_path(app, pick)
             ELSE [app |-> app, io |-> <<>>]
    IN  IF s.app.save_path # None
        THEN [app |-> IF wok THEN s.app
                      ELSE [s.app EXCEPT !.errors = Append(@, "WriteError")],
              io |-> s.io \o <<Ev("write", s.app.save_path, wok, DocOf(s.app))>>]
        ELSE s

\* Save As that writes to the path the session had
save_as_writes_old_path(app, pick, wok) ==
    LET s == set_save_path(app, pick)
    IN  IF s.app.save_path # None
        THEN LET w == save(app, pick, wok)
             IN  [app |-> [w.app EXCEPT !.save_path = s.app.save_path], io |-> s.io \o w.io]
        ELSE s

(* The "Save As" handler of App::update *)
save_as(app, pick, wok) ==
    LET s == set_save_path(app, pick)
    IN  IF s.app.save_path # None
        THEN LET w == save(s.app, pick, wok)
             IN  [app |-> w.app, io |-> s.io \o w.io]
        ELSE s

\* open that assigns the document before it looks at the result of the load
open_assigns_before_check(app, pick, res) ==
    LET dlg == <<Ev("pick_file", pick, pick # None, EmptyDoc)>>
    IN  IF pick # None
        THEN LET l == load_from_path(pick[1], res)
             IN  IF l.res.ok
                 THEN [app |-> [app EXCEPT !.groups = l.res.doc.groups,
                                           !.ungrouped = l.res.doc.ungrouped,
                                           !.save_path = Some(pick[1])],
                       io |-> dlg \o l.io]
                 ELSE [app |-> [app EXCEPT !.groups = l.res.doc.groups,
                                           !.ungrouped = l.res.doc.ungrouped,
                                           !.errors = Append(@, l.res.err)],
                       io |-> dlg \o l.io]
        ELSE [app |-> app, io |-> dlg]

\* open that extends the lists of the session with the loaded ones
open_merges(app, pick, res) ==
    LET dlg == <<Ev("pick_file", pick, pick # None, EmptyDoc)>>
    IN  IF pick # None
        THEN LET l == load_from_path(pick[1], res)
             IN  IF l.res.ok
                 THEN [app |-> [app EXCEPT !.groups = @ \o l.res.doc.groups,
                                           !.ungrouped = @ \o l.res.doc.ungrouped,
                                           !.save_path = Some(pick[1])],
                       io |-> dlg \o l.io]
                 ELSE [app |-> [app EXCEPT !.errors = Append(@, l.res.err)],
                       io |-> dlg \o l.io]
        ELSE [app |-> app, io |-> dlg]

\* open that stores the picker's answer before it looks at it
open_cancel_unbinds(app, pick, res) ==
    LET dlg == <<Ev("pick_file", pick, pick # None, EmptyDoc)>>
    IN  IF pick # None
        THEN LET l == load_from_path(pick[1], res)
             IN  IF l.res.ok
                 THEN [app |-> [app EXCEPT !.groups = l.res.doc.groups,
                                           !.ungrouped = l.res.doc.ungrouped,
                                           !.save_path = Some(pick[1])],
                       io |-> dlg \o l.io]
                 ELSE [app |-> [app EXCEPT !.errors = Append(@, l.res.err)],
                       io |-> dlg \o l.io]
        ELSE [app |-> [app EXCEPT !.save_path = pick], io |-> dlg]

(* App::open: pick is what FileDialog::pick_file returns *)
open(app, pick, res) ==
    LET dlg == <<Ev("pick_file", pick, pick # None, EmptyDoc)>>
    IN  IF pick # None
        THEN LET l == load_from_path(pick[1], res)
             IN  IF l.res.ok
                 THEN [app |-> [app EXCEPT !.groups = l.res.doc.groups,
                                           !.ungrouped = l.res.doc.ungrouped,
                                           !.save_path = Some(pick[1])],
                       io |-> dlg \o l.io]
                 ELSE [app |-> [app EXCEPT !.errors = Append(@, l.res.err)],
                       io |-> dlg \o l.io]
        ELSE [app |-> app, io |-> dlg]

----------------------------------------------------------------------------
(* The colour conversion of color_block *)

\* a cast that truncates and does not saturate
as_u8_unsaturated(n255) ==
    IF n255 < 0 THEN 0 - ((0 - n255) \div ChanDen) ELSE n255 \div ChanDen

\* f32 as u8: truncates toward zero and saturates
as_u8(n255) ==
    IF n255 <= 0 THEN 0
    ELSE IF n255 >= U8Max * ChanDen THEN U8Max
    ELSE n255 \div ChanDen

\* the channels handed to from_rgb in the order blue, green, red
to_color32_bgr(color) ==
    <<as_u8(color.ch[3] * U8Max), as_u8(color.ch[2] * U8Max), as_u8(color.ch[1] * U8Max), U8Max>>

\* Color32::from_rgb((r * 255.0) as u8, ...)
to_color32(color) ==
    <<as_u8(color.ch[1] * U8Max), as_u8(color.ch[2] * U8Max), as_u8(color.ch[3] * U8Max), U8Max>>

\* a normalisation that divides by 256
from_color32_256(c32) ==
    Rgb((c32[1] * ChanDen) \div (U8Max + 1), (c32[2] * ChanDen) \div (U8Max + 1),
        (c32[3] * ChanDen) \div (U8Max + 1))

\* Color32::to_normalized_gamma_f32, the alpha dropped
from_color32(c32) ==
    Rgb((c32[1] * ChanDen) \div U8Max, (c32[2] * ChanDen) \div U8Max, (c32[3] * ChanDen) \div U8Max)

NoIntent == [kind |-> "none", vec |-> 0, idx |-> 0, name |-> "", c32 |-> <<0, 0, 0, 0>>]
Recolor(v, i, c) == [kind |-> "recolor", vec |-> v, idx |-> i, name |-> "", c32 |-> c]
Rename(v, i, n) == [kind |-> "rename", vec |-> v, idx |-> i, name |-> n, c32 |-> <<0, 0, 0, 0>>]
AddIntent(v) == [kind |-> "add", vec |-> v, idx |-> 0, name |-> "", c32 |-> <<0, 0, 0, 0>>]

\* the match on block.color panics for anything but Rgb
unsupported(block) == block.color.tag # "Rgb"

\* color_block that builds a new block round the colour
color_block_resets_kind(block, e) ==
    LET as_color32 == to_color32(block.color)
        picked == IF e.kind = "recolor" THEN e.c32 ELSE as_color32
        name == IF e.kind = "rename" THEN e.name ELSE block.name
    IN  ColorBlock(name, from_color32(picked), "Normal")

\* color_block on an Rgb block; e is the input its picker and text field receive
color_block(block, e) ==
    LET as_color32 == to_color32(block.color)
        picked == IF e.kind = "recolor" THEN e.c32 ELSE as_color32
        name == IF e.kind = "rename" THEN e.name ELSE block.name
    IN  [block EXCEPT !.name = name, !.color = from_color32(picked)]

\* a loop that leaves an unsupported block alone and goes on
RECURSIVE render_blocks_skips(_, _, _)
render_blocks_skips(vec, i, e) ==
    IF i > Len(vec) THEN [blocks |-> vec, panicked |-> FALSE]
    ELSE IF unsupported(vec[i]) THEN render_blocks_skips(vec, i + 1, e)
    ELSE render_blocks_skips([vec EXCEPT ![i] = color_block(vec[i], IF e.idx = i THEN e ELSE NoIntent)],
                             i + 1, e)

\* the loop of render_vec_of_color from block i on; it stops at a panic
RECURSIVE render_blocks(_, _, _)
render_blocks(vec, i, e) ==
    IF i > Len(vec) THEN [blocks |-> vec, panicked |-> FALSE]
    ELSE IF unsupported(vec[i]) THEN [blocks |-> vec, panicked |-> TRUE]
    ELSE render_blocks([vec EXCEPT ![i] = color_block(vec[i], IF e.idx = i THEN e ELSE NoIntent)],
                       i + 1, e)

\* the loop gets to block i: no block up to it panics
Reached(vec, i) == \A j \in 1..i : ~unsupported(vec[j])

\* the block pushed by "Add New"
new_block == ColorBlock("new", Rgb(One, One, One), "Normal")

\* a push at the front
push_front(vec, block) == <<block>> \o vec

push(vec, block) == Append(vec, block)

----------------------------------------------------------------------------
(* State *)

Init ==
    /\ save_path = None
    /\ groups = <<>>
    /\ ungrouped = <<>>
    /\ errors = <<>>
    /\ pc = "main"
    /\ cur = 1
    /\ closing = FALSE
    /\ op = "none"
    /\ io = <<>>
    /\ intent = NoIntent
    /\ loaded = EmptyDoc
    /\ edits = 0
    /\ known_paths = {}

\* the list the frame is at
AtGroup == cur <= Len(groups)
CurVec == IF AtGroup THEN groups[cur].blocks ELSE ungrouped

SetApp(app) ==
    /\ save_path' = app.save_path
    /\ groups' = app.groups
    /\ ungrouped' = app.ungrouped
    /\ errors' = app.errors

\* a successful load starts a new document
Loaded(res) ==
    IF res.ok THEN loaded' = res.doc /\ edits' = 0
    ELSE UNCHANGED <<loaded, edits>>

\* the menu is done: the central panel starts at the first list
ToPanel ==
    /\ pc' = "blocks"
    /\ cur' = 1

(* main: App::new with the optional path argument *)
AppNew ==
    /\ pc = "main"
    /\ \E path \in Option(Paths), res \in LoadResults :
          LET r == new(path, res)
          IN  /\ SetApp(r.app)
              /\ io' = r.io
              /\ known_paths' = known_paths \cup Vouched(r.io)
              /\ IF path # None THEN Loaded(res) ELSE UNCHANGED <<loaded, edits>>
    /\ op' = "new"
    /\ pc' = "menu"
    /\ UNCHANGED <<cur, closing, intent>>

(* a frame in which no menu button is clicked *)
NoClick ==
    /\ pc = "menu"
    /\ op' = "idle"
    /\ io' = <<>>
    /\ ToPanel
    /\ UNCHANGED <<save_path, groups, ungrouped, errors, closing, intent, loaded, edits, known_paths>>

(* File > Open *)
Open ==
    /\ pc = "menu"
    /\ \E pick \in Option(Paths), res \in LoadResults :
          LET r == open(App, pick, res)
          IN  /\ Len(r.app.errors) <= MaxErrors
              /\ SetApp(r.app)
              /\ io' = r.io
              /\ known_paths' = known_paths \cup Vouched(r.io)
              /\ IF pick # None THEN Loaded(res) ELSE UNCHANGED <<loaded, edits>>
    /\ op' = "open"
    /\ ToPanel
    /\ UNCHANGED <<closing, intent>>

(* File > Save *)
Save ==
    /\ pc = "menu"
    /\ \E pick \in Option(Paths), wok \in BOOLEAN :
          LET r == save(App, pick, wok)
          IN  /\ Len(r.app.errors) <= MaxErrors
              /\ SetApp(r.app)
              /\ io' = r.io
              /\ known_paths' = known_paths \cup Vouched(r.io)
    /\ op' = "save"
    /\ ToPanel
    /\ UNCHANGED <<closing, intent, loaded, edits>>

(* File > Save As *)
SaveAs ==
    /\ pc = "menu"
    /\ \E pick \in Option(Paths), wok \in BOOLEAN :
          LET r == save_as(App, pick, wok)
          IN  /\ Len(r.app.errors) <= MaxErrors
              /\ SetApp(r.app)
              /\ io' = r.io
              /\ known_paths' = known_paths \cup Vouched(r.io)
    /\ op' = "save_as"
    /\ ToPanel
    /\ UNCHANGED <<closing, intent, loaded, edits>>

(* File > Exit: the viewport is told to close; the frame is still drawn *)
Exit ==
    /\ pc = "menu"
    /\ closing' = TRUE
    /\ op' = "exit"
    /\ io' = <<>>
    /\ ToPanel
    /\ UNCHANGED <<save_path, groups, ungrouped, errors, intent, loaded, edits, known_paths>>

\* the frame moves on from the list at cur
NextVec ==
    IF AtGroup
    THEN pc' = "blocks" /\ cur' = cur + 1
    ELSE pc' = (IF closing THEN "exited" ELSE "menu") /\ cur' = 1

(* a group whose header is collapsed: its closure is not run *)
Collapsed ==
    /\ pc = "blocks"
    /\ AtGroup
    /\ op' = "collapsed"
    /\ io' = <<>>
    /\ NextVec
    /\ UNCHANGED <<save_path, groups, ungrouped, errors, closing, intent, loaded, edits, known_paths>>

\* the inputs the widgets of the blocks of the list at cur can receive
BlockIntents ==
    {NoIntent}
    \cup {Recolor(cur, i, c) : i \in 1..Len(CurVec), c \in EditColors}
    \cup {Rename(cur, i, n) : i \in 1..Len(CurVec), n \in Names}

(* the loop over the blocks of the list at cur *)
RenderBlocks ==
    /\ pc = "blocks"
    /\ \E e \in BlockIntents :
          LET r == render_blocks(CurVec, 1, e)
          IN  /\ e.kind # "none" => edits < MaxEdits /\ Reached(CurVec, e.idx)
              /\ IF AtGroup
                 THEN groups' = [groups EXCEPT ![cur].blocks = r.blocks] /\ UNCHANGED ungrouped
                 ELSE ungrouped' = r.blocks /\ UNCHANGED groups
              /\ pc' = IF r.panicked THEN "aborted" ELSE "add"
              /\ intent' = e
              /\ edits' = IF e.kind # "none" THEN edits + 1 ELSE edits
    /\ op' = "render_blocks"
    /\ io' = <<>>
    /\ UNCHANGED <<save_path, errors, cur, closing, loaded, known_paths>>

(* "Add New" of the list at cur is clicked *)
AddBlock ==
    /\ pc = "add"
    /\ Len(CurVec) < MaxBlocks
    /\ edits < MaxEdits
    /\ IF AtGroup
       THEN groups' = [groups EXCEPT ![cur].blocks = push(@, new_block)] /\ UNCHANGED ungrouped
       ELSE ungrouped' = push(ungrouped, new_block) /\ UNCHANGED groups
    /\ intent' = AddIntent(cur)
    /\ edits' = edits + 1
    /\ op' = "add_block"
    /\ io' = <<>>
    /\ NextVec
    /\ UNCHANGED <<save_path, errors, closing, loaded, known_paths>>

(* "Add New" of the list at cur is drawn and not clicked *)
NoAdd ==
    /\ pc = "add"
    /\ intent' = NoIntent
    /\ op' = "add_new"
    /\ io' = <<>>
    /\ NextVec
    /\ UNCHANGED <<save_path, groups, ungrouped, errors, closing, loaded, edits, known_paths>>

Next ==
    \/ AppNew
    \/ NoClick
    \/ Open
    \/ Save
    \/ SaveAs
    \/ Exit
    \/ Collapsed
    \/ RenderBlocks
    \/ AddBlock
    \/ NoAdd

Spec == Init /\ [][Next]_vars

----------------------------------------------------------------------------
(* The colour conversion on a grid of channel values: the session after     *)
(* App::new has loaded a file of one block, and frames with no menu click.  *)

GridOver == 3       \* how far below 0.0 and above 1.0 the channel values go

Grid == (0 - GridOver)..(ChanDen + GridOver)
GridColors == UNION {{Rgb(v, 0, One), Rgb(One, v, 0), Rgb(0, One, v)} : v \in Grid}
GridDoc(c) == Document(<<>>, <<ColorBlock("a", c, "Spot")>>)

GridInit ==
    \E c \in GridColors :
        LET r == new(Some("p1"), LoadOk(GridDoc(c)))
        IN  /\ save_path = r.app.save_path
            /\ groups = r.app.groups
            /\ ungrouped = r.app.ungrouped
            /\ errors = r.app.errors
            /\ pc = "menu"
            /\ cur = 1
            /\ closing = FALSE
            /\ op = "new"
            /\ io = r.io
            /\ intent = NoIntent
            /\ loaded = GridDoc(c)
            /\ edits = 0
            /\ known_paths = Vouched(r.io)

GridNext ==
    \/ NoClick
    \/ RenderBlocks
    \/ NoAdd

GridSpec == GridInit /\ [][GridNext]_vars

----------------------------------------------------------------------------
(* Properties *)

IsPrefix(s, t) == Len(s) <= Len(t) /\ SubSeq(t, 1, Len(s)) = s

\* the calls of kind t among the calls l of a step
Calls(l, t) == {i \in DOMAIN l : l[i].t = t}
Cancelled(l) == \E i \in Calls(l, "save_file") : ~l[i].ok
FailedRead(l) == \E i \in Calls(l, "read") : ~l[i].ok
OkRead(l) == \E i \in Calls(l, "read") : l[i].ok

\* the colours of a document, list by list
Colours(d) ==
    <<[g \in DOMAIN d.groups |-> [i \in DOMAIN d.groups[g].blocks |-> d.groups[g].blocks[i].color]],
      [i \in DOMAIN d.ungrouped |-> d.ungrouped[i].color]>>

\* the blocks of a document that are not Rgb, with their places (0: ungrouped)
Unsupported(d) ==
    UNION {{<<g, i, d.groups[g].blocks[i]>> :
               i \in {j \in DOMAIN d.groups[g].blocks : d.groups[g].blocks[j].color.tag # "Rgb"}} :
           g \in DOMAIN d.groups}
    \cup {<<0, i, d.ungrouped[i]>> :
               i \in {j \in DOMAIN d.ungrouped : d.ungrouped[j].color.tag # "Rgb"}}

Doc == Document(groups, ungrouped)

\* C1: a cancelled save-path prompt (of Save As, or of Save when Unbound)
\* leaves save_path as it was; a session Bound at P stays Bound at P.
C1_CancelledPromptKeepsSavePath ==
    [][Cancelled(io') => save_path' = save_path]_vars

\* C2: with no user edit since the load, the colours handed to encode by a
\* save are exactly the colours that were loaded.
C2_NoEditSaveExact ==
    \A i \in Calls(io, "write") : edits = 0 => Colours(io[i].doc) = Colours(loaded)

\* C3: a failed Open leaves groups, ungrouped and save_path as they were and
\* appends exactly one entry to errors.
C3_FailedOpenKeepsState ==
    [][(op' = "open" /\ FailedRead(io')) =>
          /\ groups' = groups
          /\ ungrouped' = ungrouped
          /\ save_path' = save_path
          /\ Len(errors') = Len(errors) + 1
          /\ IsPrefix(errors, errors')]_vars

C3_Witness ==
    /\ op = "open"
    /\ FailedRead(io)
    /\ save_path # None
    /\ groups # <<>>
    /\ ungrouped # <<>>

\* C4: starting with a path argument is Load(path) on the empty Unbound
\* session: a successful load gives the decoded document and save_path =
\* Some(path); a failed load leaves the document empty and the session
\* Unbound and appends one diagnostic; no argument gives the empty Unbound
\* session with no errors.
C4_StartupIsLoad ==
    op = "new" =>
        IF io[1].path = None
        THEN Doc = EmptyDoc /\ save_path = None /\ errors = <<>>
        ELSE IF io[2].ok
        THEN Doc = io[2].doc /\ save_path = io[1].path /\ errors = <<>>
        ELSE Doc = EmptyDoc /\ save_path = None /\ Len(errors) = 1

\* C5: with one non-Rgb block in the document the session keeps running
\* (rendering never ends the process), the non-Rgb block keeps its stored
\* value, and a save hands it to encode unchanged.
C5_UnsupportedIsolation ==
    Cardinality(Unsupported(loaded)) = 1 =>
        /\ pc # "aborted"
        /\ Unsupported(Doc) = Unsupported(loaded)
        /\ \A i \in Calls(io, "write") : Unsupported(io[i].doc) = Unsupported(loaded)

\* C6: from Unbound, a Save whose path prompt is cancelled writes nothing,
\* stays Unbound and leaves errors and the document unchanged.
C6_CancelledSaveIsSkipped ==
    [][(op' = "save" /\ save_path = None /\ Cancelled(io')) =>
          /\ Calls(io', "write") = {}
          /\ save_path' = None
          /\ errors' = errors
          /\ groups' = groups
          /\ ungrouped' = ungrouped]_vars

C6_Witness ==
    /\ op = "save"
    /\ Cancelled(io)
    /\ save_path = None
    /\ ungrouped # <<>>
    /\ errors # <<>>

\* C7: from Bound at P, a Save makes exactly one write attempt, of the
\* current document to P, without the save picker; when the write fails
\* save_path stays P, the document is unchanged and exactly one entry is
\* appended to errors (so the next Save writes to P again).
C7_FailedWriteKeepsPath ==
    [][(op' = "save" /\ save_path # None) =>
          /\ Len(io') = 1
          /\ io'[1].t = "write"
          /\ io'[1].path = save_path
          /\ io'[1].doc = Doc
          /\ save_path' = save_path
          /\ groups' = groups
          /\ ungrouped' = ungrouped
          /\ IsPrefix(errors, errors')
          /\ Len(errors') = (IF io'[1].ok THEN Len(errors) ELSE Len(errors) + 1)]_vars

C7_Witness ==
    /\ op = "save"
    /\ Len(io) = 1
    /\ io[1].t = "write"
    /\ ~io[1].ok
    /\ save_path = io[1].path
    /\ Len(errors) >= 2
    /\ errors[Len(errors) - 1] = "WriteError"
    /\ errors[Len(errors)] = "WriteError"

\* C8: a successful Open replaces groups and ungrouped by exactly the decoded
\* document's, sets save_path to the chosen path and leaves errors unchanged.
C8_OpenReplacesWholesale ==
    [][(op' = "open" /\ OkRead(io')) =>
          /\ groups' = io'[2].doc.groups
          /\ ungrouped' = io'[2].doc.ungrouped
          /\ save_path' = io'[1].path
          /\ io'[2].path = io'[1].path
          /\ errors' = errors]_vars

\* an Open that succeeded right after a frame whose last input was "Add New"
C8_Witness ==
    /\ op = "open"
    /\ OkRead(io)
    /\ intent.kind = "add"
    /\ Doc = io[2].doc
    /\ Doc # EmptyDoc

\* C9: errors is append-only: every step leaves the previous errors as a
\* prefix of the new errors.
C9_ErrorsAppendOnly ==
    [][IsPrefix(errors, errors')]_vars

C9_Witness ==
    /\ Len(errors) >= 2
    /\ errors[1] # errors[2]

\* C10: "Add New" appends exactly one block named "new", of colour Rgb(1,1,1)
\* and kind Normal, at the end of its list; every other list, save_path and
\* errors are unchanged and the process keeps running.
C10_AddBlockAppendsDefault ==
    [][op' = "add_block" =>
          LET b == [name |-> "new",
                    color |-> [tag |-> "Rgb", ch |-> <<ChanDen, ChanDen, ChanDen>>],
                    color_type |-> "Normal"]
          IN  /\ IF cur <= Len(groups)
                 THEN /\ groups' = [groups EXCEPT ![cur].blocks = groups[cur].blocks \o <<b>>]
                      /\ ungrouped' = ungrouped
                 ELSE /\ ungrouped' = ungrouped \o <<b>>
                      /\ groups' = groups
              /\ save_path' = save_path
              /\ errors' = errors
              /\ pc' \in {"menu", "blocks", "exited"}]_vars

C10_Witness ==
    /\ op = "add_block"
    /\ Len(ungrouped) = 2
    /\ ungrouped[2].name = "new"
    /\ ungrouped[1].name # "new"

\* "Add New" on the empty ungrouped list gives a list of length 1
C10_WitnessEmpty ==
    /\ op = "add_block"
    /\ groups = <<>>
    /\ Len(ungrouped) = 1

----------------------------------------------------------------------------
(* Properties of the conversion, of the structure and of the menu handlers *)

Abs(n) == IF n < 0 THEN 0 - n ELSE n

\* the list at position c of the lists g (groups) and u (ungrouped)
VecOf(g, u, c) == IF c <= Len(g) THEN g[c].blocks ELSE u

\* the blocks of a document
BlocksOf(d) ==
    UNION {{d.groups[g].blocks[i] : i \in DOMAIN d.groups[g].blocks} : g \in DOMAIN d.groups}
    \cup {d.ungrouped[i] : i \in DOMAIN d.ungrouped}

\* round(clamp(n / ChanDen, 0, 1) * 255)
RoundClamp(n) ==
    LET c == IF n < 0 THEN 0 ELSE IF n > ChanDen THEN ChanDen ELSE n
    IN  (2 * c * U8Max + ChanDen) \div (2 * ChanDen)

InGamut(color) == \A k \in 1..3 : 0 <= color.ch[k] /\ color.ch[k] <= ChanDen

\* every channel is k/255 for an integer k in 0..255
OnDisplayGrid(color) ==
    /\ color.tag = "Rgb"
    /\ Len(color.ch) = 3
    /\ InGamut(color)
    /\ \A k \in 1..3 : (color.ch[k] * U8Max) % ChanDen = 0

\* the blocks of the list vec that its loop gets to and renders
Rendered(vec) == {i \in DOMAIN vec : \A j \in 1..i : vec[j].color.tag = "Rgb"}

\* C11: the display colour of an Rgb colour has round(clamp(c, 0, 1) * 255)
\* in every channel, also for channels outside [0, 1].
C11_ToDisplayRounds ==
    \A b \in BlocksOf(Doc) :
        b.color.tag = "Rgb" =>
            \A k \in 1..3 : to_color32(b.color)[k] = RoundClamp(b.color.ch[k])

\* C12: a render step with no colour edit moves every channel of a block
\* whose channels are in [0, 1] by at most 1/255.
C12_RoundTripWithinStep ==
    [][op' = "render_blocks" =>
          LET before == VecOf(groups, ungrouped, cur)
              after == VecOf(groups', ungrouped', cur)
          IN  \A i \in Rendered(before) :
                  (InGamut(before[i].color) /\ ~(intent'.kind = "recolor" /\ intent'.idx = i)) =>
                      \A k \in 1..3 :
                          Abs(after[i].color.ch[k] - before[i].color.ch[k]) * U8Max <= ChanDen]_vars

\* a first render that changed a colour that was in [0, 1]
C12_Witness ==
    /\ op = "render_blocks"
    /\ intent.kind = "none"
    /\ edits = 0
    /\ InGamut(loaded.ungrouped[1].color)
    /\ ungrouped[1].color # loaded.ungrouped[1].color

\* C13: a step that is not a successful load keeps the number, order and
\* names of the groups, keeps every block that was there at its position with
\* its kind (and with its name, unless the step renames it), and changes a
\* list's length only by one append at its end.
C13_StructureKept ==
    [][~OkRead(io') =>
          LET Ext(before, after, c) ==
                  /\ Len(after) \in {Len(before), Len(before) + 1}
                  /\ Len(after) = Len(before) + 1 => op' = "add_block" /\ cur = c
                  /\ \A i \in DOMAIN before :
                        /\ after[i].color_type = before[i].color_type
                        /\ (after[i].name # before[i].name =>
                               /\ op' = "render_blocks"
                               /\ cur = c
                               /\ intent'.kind = "rename"
                               /\ intent'.idx = i)
                        /\ (op' # "render_blocks" => after[i] = before[i])
          IN  /\ Len(groups') = Len(groups)
              /\ \A g \in DOMAIN groups :
                    /\ groups'[g].name = groups[g].name
                    /\ Ext(groups[g].blocks, groups'[g].blocks, g)
              /\ Ext(ungrouped, ungrouped', Len(groups) + 1)]_vars

\* a recolor of a loaded block, after an append and a diagnostic
C13_Witness ==
    /\ op = "render_blocks"
    /\ intent.kind = "recolor"
    /\ intent.idx = 1
    /\ Len(ungrouped) = 2
    /\ ungrouped[1].color_type = "Spot"
    /\ ungrouped[2].name = "new"
    /\ errors # <<>>

\* C14: an Open whose file picker is cancelled reads no file and changes
\* none of groups, ungrouped, save_path and errors.
C14_CancelledOpenChangesNothing ==
    [][(op' = "open" /\ ~io'[1].ok) =>
          /\ io'[1].t = "pick_file"
          /\ Calls(io', "read") = {}
          /\ groups' = groups
          /\ ungrouped' = ungrouped
          /\ save_path' = save_path
          /\ errors' = errors]_vars

C14_Witness ==
    /\ op = "open"
    /\ io = <<Ev("pick_file", None, FALSE, EmptyDoc)>>
    /\ save_path # None
    /\ groups # <<>>
    /\ errors # <<>>

\* C15: Save As asks the save picker exactly once; when the user confirms it
\* makes exactly one write attempt, of the current document, to the chosen
\* path, and the session ends Bound at the chosen path; when the user cancels
\* there is no write and no after entry in errors.
C15_SaveAsPromptsOnceThenWrites ==
    [][op' = "save_as" =>
          /\ Cardinality(Calls(io', "save_file")) = 1
          /\ io'[1].t = "save_file"
          /\ IF io'[1].ok
             THEN /\ Len(io') = 2
                  /\ io'[2].t = "write"
                  /\ io'[2].path = io'[1].path
                  /\ io'[2].doc = Doc
                  /\ save_path' = io'[1].path
                  /\ groups' = groups
                  /\ ungrouped' = ungrouped
             ELSE /\ Len(io') = 1
                  /\ errors' = errors]_vars

\* a Save As to p2 in a session that knows p1 as well
C15_Witness ==
    /\ op = "save_as"
    /\ Len(io) = 2
    /\ io[2].t = "write"
    /\ io[2].path = Some("p2")
    /\ save_path = Some("p2")
    /\ "p1" \in known_paths
    /\ loaded # EmptyDoc

\* C16: Save asks the save picker if and only if the session is Unbound when
\* it starts, and at most once; when the session is Bound after that, Save
\* makes exactly one write attempt, of the document as it is then, to
\* save_path; groups and ungrouped are unchanged.
C16_SavePromptsIffUnbound ==
    [][op' = "save" =>
          /\ (Calls(io', "save_file") # {}) <=> (save_path = None)
          /\ Cardinality(Calls(io', "save_file")) <= 1
          /\ IF save_path' # None
             THEN /\ Cardinality(Calls(io', "write")) = 1
                  /\ io'[Len(io')].t = "write"
                  /\ io'[Len(io')].path = save_path'
                  /\ io'[Len(io')].doc = Doc
             ELSE Calls(io', "write") = {}
          /\ groups' = groups
          /\ ungrouped' = ungrouped]_vars

\* an Unbound Save of a document with user edits, the prompt confirmed
C16_Witness ==
    /\ op = "save"
    /\ Len(io) = 2
    /\ io[1].t = "save_file"
    /\ io[2].t = "write"
    /\ io[2].doc = Doc
    /\ edits > 0
    /\ \E b \in BlocksOf(Doc) : b.name = "new"

\* C17: a render step whose loop gets to a block that is not Rgb aborts the
\* process: the step appends nothing to errors and changes no block that is
\* not Rgb, and no step follows an abort.
C17_UnsupportedAborts ==
    [][/\ pc # "aborted"
       /\ (op' = "render_blocks" /\ \E i \in DOMAIN CurVec : CurVec[i].color.tag # "Rgb") =>
             /\ pc' = "aborted"
             /\ errors' = errors
             /\ Unsupported(Document(groups', ungrouped')) = Unsupported(Doc)]_vars

C17_Witness ==
    /\ pc = "aborted"
    /\ op = "render_blocks"
    /\ Cardinality(Unsupported(Doc)) = 1
    /\ errors # <<>>

\* C18: after a render step every block the loop rendered (edited or not) has
\* an Rgb colour with every channel in [0, 1] and equal to k/255, whatever
\* the channels were before, out of [0, 1] included.
C18_RenderedOnDisplayGrid ==
    [][op' = "render_blocks" =>
          \A i \in Rendered(VecOf(groups, ungrouped, cur)) :
              OnDisplayGrid(VecOf(groups', ungrouped', cur)[i].color)]_vars

\* a render of a loaded colour with a channel below 0 or above 1
C18_Witness ==
    /\ op = "render_blocks"
    /\ edits = 0
    /\ \E k \in 1..3 :
          \/ loaded.ungrouped[1].color.ch[k] < 0 /\ ungrouped[1].color.ch[k] = 0
          \/ loaded.ungrouped[1].color.ch[k] > ChanDen /\ ungrouped[1].color.ch[k] = ChanDen

\* C19: every write goes to a path that the session loaded successfully or
\* that the user confirmed in the save picker.
C19_WritesOnlyToKnownPaths ==
    \A i \in Calls(io, "write") : io[i].path[1] \in known_paths

\* C20: a render step with no edit leaves the colour of a block that has
\* been rendered before (its channels are k/255) exactly as it was.
C20_RenderIdempotent ==
    [][(op' = "render_blocks" /\ intent'.kind = "none") =>
          LET before == VecOf(groups, ungrouped, cur)
              after == VecOf(groups', ungrouped', cur)
          IN  \A i \in Rendered(before) :
                  OnDisplayGrid(before[i].color) => after[i].color = before[i].color]_vars

\* a render with no edit of a block that an earlier render renamed and quantised
C20_Witness ==
    /\ op = "render_blocks"
    /\ intent.kind = "none"
    /\ edits = 1
    /\ ungrouped[1].name = "x"
    /\ ungrouped[1].color # loaded.ungrouped[1].color
    /\ OnDisplayGrid(ungrouped[1].color)

====
